---- MODULE Spec2Model ----
(***************************************************************************)
(* Model of the OTP authentication core of go-otp-auth-service:            *)
(* the sliding-window rate limiter (internal/middleware), the in-memory    *)
(* OTP and user stores (internal/database), the auth service               *)
(* (pkg/auth: SendOTP, VerifyOTPAndAuthenticate) and the POST /otp/send    *)
(* pipeline wired in cmd/app/main.go and internal/api.                     *)
(*                                                                         *)
(* Time is counted in minutes.  Every store method holds its mutex for its *)
(* whole body, so each store method is one step; Allow is split at the     *)
(* point between reading and writing the window so that the mutual         *)
(* exclusion given by r.mu is something the model checks.                  *)
(***************************************************************************)
EXTENDS Integers, Sequences, FiniteSets, TLC

\* ------------------------------------------------------------------ bounds
NumThreads == 2
MaxTicks == 2
MaxSends == 2
MaxVerifies == 2
MaxLimiterSends == 5
MaxHttpSends == 3
MaxMints == 1
MaxFaultSends == 2
MaxFaultVerifies == 2
MaxStoreCalls == 4
MaxLiveSends == 2
MaxLiveVerifies == 1
MaxRejectSends == 4
MaxRejectVerifies == 1
MaxIsoSends == 2
MaxIsoVerifies == 1
MaxBothAllows == 6
MaxBothTicks == 3

Threads == 1..NumThreads
Phones == {"+15551234567", "+15557654321"}
Codes == {"482913", "000000"}
OnePhone == "+15551234567"
OneCode == "482913"

\* ------------------------------------------------------- program constants
maxReq == 3
timeWindow == 2
OTPTTL == 2
JWTTTL == 1440
CleanupInterval == 10
OTPModulus == 1000000

\* The amounts by which the clock advances between two steps.
TickSteps == {1, CleanupInterval}

ErrNil == "nil"
ErrNotFound == "not found"
ErrAlreadyExists == "already exists"
ErrUserNotFound == "user not found"
ErrRateLimitExceeded == "rate limit exceeded"
ErrInvalidOTP == "invalid or expired OTP"
ErrUserRegistration == "failed to register new user"
ErrJWTGeneration == "failed to generate JWT token"
ErrStoreOTP == "failed to process OTP request"
ErrDBLookup == "failed to get user by phone number"
ErrDBCreate == "failed to create user"
ErrDBDelete == "failed to delete OTP"

NoHolder == 0

\* Go zero values of model.OTP, model.User and of the token string.  Of each
\* struct the model keeps the fields the service reads.
ZeroOTP == [ID |-> 0, PhoneNumber |-> "", OTPCode |-> "", ExpiresAt |-> 0]
ZeroUser == [ID |-> 0, PhoneNumber |-> "", CreatedAt |-> 0]

\* cfg.JWTSecret, and a key that is not the server's.
JWTSecret == "server-secret"
OtherKey == "other-key"

\* A JSON value of a claim: a string, a number, or no member at all.
JString(s) == [kind |-> "string", text |-> s]
JNumber(s) == [kind |-> "number", text |-> s]
JAbsent == [kind |-> "absent", text |-> ""]

\* A JWT is its header's alg, its claims and its signature; wellformed is
\* FALSE for a string that does not decode into these three.  NoToken is "".
NoClaims == [sub |-> JAbsent, phone |-> JAbsent, iat |-> 0, exp |-> 0]
NoSig == [alg |-> "", key |-> "", claims |-> NoClaims]
NoToken == [wellformed |-> FALSE, alg |-> "", claims |-> NoClaims, sig |-> NoSig]

VARIABLES
    now,          \* the clock, time.Now()
    requests,     \* InMemoryRateLimiter.requests: key -> list of instants
    rlMu,         \* InMemoryRateLimiter.mu: the thread holding it, or NoHolder
    nextCleanup,  \* the next instant of cleanup's time.Tick channel
    otps,         \* InMemoryOTPStore.otps, as its set of entries
    nextOtpID,    \* the next uuid.New() of StoreOTP
    users,        \* InMemoryUserStore.users: id -> user
    phoneIndex,   \* InMemoryUserStore.phoneIndex: phone -> id
    nextUserID,   \* the next uuid.New() of CreateUser
    sink,         \* the log sink: the OTP last printed for each phone
    th,           \* per thread: the call it runs, its position and its locals
    ticks,        \* number of clock advances so far
    budget,       \* the calls the callers may still start, per kind
    inputs,       \* the phone numbers and the codes the calls are drawn from
    admitted,     \* history: per key, the instants at which Allow returned true
    storeLog,     \* history: per phone, the OTPs stored by StoreOTP, in order
    passCount,    \* history: per OTP id, the verifications that returned a token
    httpLog,      \* history: the answered POST /otp/send requests
    issued,       \* the tokens generateJWT has returned, with what they were minted for
    auth,         \* the last request through AuthMiddleware and its outcome
    gen,          \* the last call of GenerateOTP: the entropy read and the code
    shadow,       \* history: requests as it would be had cleanup never run
    backends,     \* the in-memory and the PostgreSQL store side by side
    dbLimiter     \* database.InMemoryRateLimiter beside the middleware's

vars == <<now, requests, rlMu, nextCleanup, otps, nextOtpID, users, phoneIndex,
          nextUserID, sink, th, ticks, budget, inputs, admitted, storeLog,
          passCount, httpLog, issued, auth, gen, shadow, backends, dbLimiter>>

tokenVars == <<issued, auth>>
limiterVars == <<requests, rlMu, nextCleanup, admitted, shadow>>
otpVars == <<otps, nextOtpID, storeLog>>
userVars == <<users, phoneIndex, nextUserID>>

\* ----------------------------------------------------------------- helpers
\* make(map[...]...): the empty Go map.
EmptyMap == [x \in {} |-> 0]

\* m[k] of a Go map of slices: the nil slice when k is absent.
Lookup(m, k) == IF k \in DOMAIN m THEN m[k] ELSE <<>>

\* m[k] = v of a Go map.
MapPut(m, k, v) == [x \in (DOMAIN m) \cup {k} |-> IF x = k THEN v ELSE m[x]]

\* The filter loop of Allow and cleanup: keep t with currentTime.Sub(t) <= timeWindow.
Recent_Strict(list, currentTime) ==
    SelectSeq(list, LAMBDA x : currentTime - x < timeWindow)

Recent(list, currentTime) ==
    SelectSeq(list, LAMBDA x : currentTime - x <= timeWindow)

\* len(recentRequests) >= r.maxReq
LimitReached_OffByOne(n) == n > maxReq

LimitReached(n) == n >= maxReq

\* What Allow stores on the rejecting branch: the filtered list.
RejectedList_Recording(recent, currentTime) == Append(recent, currentTime)

RejectedList(recent, currentTime) == recent

\* r.mu.Unlock(), deferred by Allow.
Unlock_Forgotten(mu) == mu

Unlock(mu) == NoHolder

\* What cleanup keeps of a key's list at instant currentTime.
CleanupKeep_Nothing(list, currentTime) == <<>>

CleanupKeep(list, currentTime) ==
    SelectSeq(list, LAMBDA x : currentTime - x <= timeWindow)

\* r.mu.Lock() can be taken.
CanLock_NoExclusion(mu) == TRUE

CanLock(mu) == mu = NoHolder

\* OTP.IsExpired: time.Now().After(o.ExpiresAt)
IsExpired_Never(o, t) == FALSE

IsExpired(o, t) == t > o.ExpiresAt

\* The condition of VerifyOTPAndAuthenticate's step 1 and the error it returns.
CheckOTP_DistinctErrors(getErr, storedOTP, receivedOTP, t) ==
    IF getErr # ErrNil THEN ErrNotFound
    ELSE IF storedOTP.OTPCode # receivedOTP THEN "wrong OTP"
    ELSE IF IsExpired(storedOTP, t) THEN "expired OTP"
    ELSE ErrNil

CheckOTP_AlwaysPass(getErr, storedOTP, receivedOTP, t) == ErrNil

CheckOTP(getErr, storedOTP, receivedOTP, t) ==
    IF getErr # ErrNil \/ storedOTP.OTPCode # receivedOTP \/ IsExpired(storedOTP, t)
    THEN ErrInvalidOTP
    ELSE ErrNil

\* s.otps[otp.PhoneNumber] = otp
PutOTP_Append(rows, otp) == rows \cup {otp}

PutOTP(rows, otp) == {r \in rows : r.PhoneNumber # otp.PhoneNumber} \cup {otp}

\* delete(s.otps, phoneNumber)
DeleteRow_Noop(rows, phoneNumber) == rows

DeleteRow_Everyone(rows, phoneNumber) == {}

DeleteRow(rows, phoneNumber) == {r \in rows : r.PhoneNumber # phoneNumber}

\* s.phoneIndex[user.PhoneNumber] = user.ID
IndexPut_Skipped(index, phoneNumber, id) == index

IndexPut(index, phoneNumber, id) == MapPut(index, phoneNumber, id)

\* CreateUser's test: _, exists := s.phoneIndex[user.PhoneNumber]
PhoneTaken_Never(index, phoneNumber) == FALSE

PhoneTaken(index, phoneNumber) == phoneNumber \in DOMAIN index

\* uuid.UUID.String(): 36 characters, hexadecimal with dashes.
HexDigit == <<"0", "1", "2", "3", "4", "5", "6", "7", "8", "9">>
UUIDSpace == 0 .. (Len(HexDigit) - 1)
UUIDString(id) == "00000000-0000-4000-8000-00000000000" \o HexDigit[id + 1]

\* uuid.Parse: the forms it accepts of one UUID, and the parse itself.
UUIDForms(id) ==
    {UUIDString(id),
     "urn:uuid:" \o UUIDString(id),
     "{" \o UUIDString(id) \o "}",
     "0000000000004000800000000000000" \o HexDigit[id + 1]}

ParseUUID(text) ==
    IF \E id \in UUIDSpace : text \in UUIDForms(id)
    THEN [err |-> FALSE, id |-> CHOOSE id \in UUIDSpace : text \in UUIDForms(id)]
    ELSE [err |-> TRUE, id |-> 0]

\* generateJWT's jwt.MapClaims.
MintClaims_NoSubject(userID, phoneNumber, t) ==
    [sub |-> JString(phoneNumber), phone |-> JString(phoneNumber),
     iat |-> t, exp |-> t + JWTTTL]

MintClaims(userID, phoneNumber, t) ==
    [sub |-> JString(UUIDString(userID)), phone |-> JString(phoneNumber),
     iat |-> t, exp |-> t + JWTTTL]

\* SigningMethod.Sign: the tag binds the algorithm, the key and the claims;
\* alg none signs with the empty signature.
Sign(alg, key, claims) ==
    IF alg = "none" THEN NoSig ELSE [alg |-> alg, key |-> key, claims |-> claims]

\* token.SignedString(key) of jwt.NewWithClaims(method, claims).
SignedString(alg, key, claims) ==
    [wellformed |-> TRUE, alg |-> alg, claims |-> claims, sig |-> Sign(alg, key, claims)]

\* authService.generateJWT at instant t.
generateJWT(userID, phoneNumber, t) ==
    SignedString("HS256", JWTSecret, MintClaims(userID, phoneNumber, t))

\* The signing methods golang-jwt registers (those the model uses), the
\* HMAC ones among them, and a name it does not know.
RegisteredAlgs == {"HS256", "HS384", "HS512", "RS256", "none"}
HMACAlgs == {"HS256", "HS384", "HS512"}
Algs == RegisteredAlgs \cup {"HS999"}

\* AuthMiddleware's key function: only *jwt.SigningMethodHMAC gets the key.
KeyFuncAccepts_OnlyHS256(alg) == alg = "HS256"

KeyFuncAccepts(alg) == alg \in HMACAlgs

\* The exp check of jwt.Parse's validator: now must be before exp.
NotExpired_Ever(claims, t) == TRUE

NotExpired(claims, t) == t < claims.exp

\* jwt.Parse(tokenString, keyFunc) at instant t: the error, or ErrNil.
ParseJWT(tok, secret, t) ==
    IF ~tok.wellformed THEN "token is malformed"
    ELSE IF tok.alg \notin RegisteredAlgs THEN "signing method (alg) is unavailable"
    ELSE IF ~KeyFuncAccepts(tok.alg) THEN "unexpected signing method"
    ELSE IF tok.sig # Sign(tok.alg, secret, tok.claims) THEN "signature is invalid"
    ELSE IF ~NotExpired(tok.claims, t) THEN "token is expired"
    ELSE ErrNil

\* What AuthMiddleware leaves of a request: the status, whether c.Next() ran
\* the protected handler, and the user it put in the context.
Unauthorized == [status |-> 401, ran |-> FALSE, user |-> ZeroUser]
Panicked == [status |-> 500, ran |-> FALSE, user |-> ZeroUser]
Passed(id, phoneNumber) ==
    [status |-> 200, ran |-> TRUE,
     user |-> [ID |-> id, PhoneNumber |-> phoneNumber, CreatedAt |-> 0]]

\* AuthMiddleware on an Authorization header at instant t.  A header is the
\* number n of fields strings.Split finds in it (0 for the empty header), the
\* first field and the token the second field decodes to.  A failed type
\* assertion panics; gin.Recovery answers 500.
AuthMiddleware(header, secret, t) ==
    IF header.n = 0 THEN Unauthorized
    ELSE IF header.n # 2 \/ header.scheme # "Bearer" THEN Unauthorized
    ELSE IF ParseJWT(header.token, secret, t) # ErrNil THEN Unauthorized
    ELSE LET claims == header.token.claims
         IN IF claims.sub.kind # "string" THEN Panicked
            ELSE IF ParseUUID(claims.sub.text).err THEN Unauthorized
            ELSE IF claims.phone.kind # "string" THEN Panicked
            ELSE Passed(ParseUUID(claims.sub.text).id, claims.phone.text)

\* io.ReadAtLeast(rand.Reader, b, 3): an error, or three bytes.
EntropyRead(b) == [err |-> FALSE, b |-> b]
EntropyFailure == [err |-> TRUE, b |-> <<0, 0, 0>>]

\* (int(b[0])<<16 | int(b[1])<<8 | int(b[2])) % 1000000
OTPNumber(b) == (b[1] * 65536 + b[2] * 256 + b[3]) % OTPModulus

\* fmt.Sprintf("%06d", n) for 0 <= n < 1000000.
Sprintf06(n) ==
    HexDigit[((n \div 100000) % 10) + 1] \o HexDigit[((n \div 10000) % 10) + 1]
        \o HexDigit[((n \div 1000) % 10) + 1] \o HexDigit[((n \div 100) % 10) + 1]
        \o HexDigit[((n \div 10) % 10) + 1] \o HexDigit[(n % 10) + 1]

\* SimpleOTPGenerator.GenerateOTP on the outcome e of the entropy read.
GenerateOTP(e) == IF e.err THEN "000000" ELSE Sprintf06(OTPNumber(e.b))

\* What a store call that returns a database error leaves of the OTP table.
StoreFailed_Partial(rows, otp) == PutOTP(rows, otp)

StoreFailed(rows, otp) == rows

\* The error VerifyOTPAndAuthenticate returns for a failure after the OTP
\* check: of the user lookup, of CreateUser, of generateJWT.
VerifyFailure_Conflated(stage, err) == ErrInvalidOTP

VerifyFailure(stage, err) ==
    CASE stage = "lookup" -> err
      [] stage = "create" -> ErrUserRegistration
      [] stage = "jwt" -> ErrJWTGeneration

\* The entries of the OTP map under phoneNumber.
RowsOf(rows, phoneNumber) == {r \in rows : r.PhoneNumber = phoneNumber}

\* Number of instants of list within timeWindow of t (counted with <=).
InWindow(list, t) == Len(SelectSeq(list, LAMBDA x : t - x <= timeWindow))

IdleThread ==
    [pc |-> "idle", op |-> "none", via |-> "svc", phone |-> "", code |-> "",
     caller |-> "none", currentTime |-> 0, recent |-> <<>>, allowed |-> FALSE,
     winCount |-> 0, expiresAt |-> 0, err |-> ErrNil, getErr |-> ErrNil,
     storedOTP |-> ZeroOTP, seenStores |-> 0, priorSuccess |-> FALSE, mismatchedID |-> 0,
     checkTime |-> 0, user |-> ZeroUser, created |-> FALSE, createErr |-> ErrNil,
     entropyFailed |-> FALSE, deleteErr |-> ErrNil,
     token |-> NoToken,
     arrival |-> 0, status |-> 0]

NoHeader == [n |-> 0, scheme |-> "", token |-> NoToken]
NoRequest == [header |-> NoHeader, at |-> 0, result |-> Unauthorized, seen |-> FALSE]
NoGen == [err |-> FALSE, b |-> <<0, 0, 0>>, code |-> ""]

\* Whether a call to the database fails: only where the run injects faults.
FaultOutcomes(kind) == IF kind \in inputs.faults THEN {FALSE, TRUE} ELSE {FALSE}

\* The two stores, empty, with no call made yet.
EmptyStore == [otps |-> {}, users |-> <<>>]
NoResult == [class |-> "", code |-> "", expiry |-> 0, phone |-> ""]
NoBackends ==
    [mem |-> EmptyStore, pg |-> EmptyStore, calls |-> 0,
     last |-> [op |-> "", mem |-> NoResult, pg |-> NoResult],
     list |-> [seen |-> FALSE, args |-> <<0, 0, "">>, usersAt |-> <<>>, page |-> <<>>,
               total |-> 0, pgUsersAt |-> <<>>, pgTotal |-> 0, pgPending |-> FALSE,
               pgUsersAtPage |-> <<>>, pgPage |-> <<>>]]

\* database.NewInMemoryRateLimiter(), with no Allow called yet on either limiter.
NoDbLimiter ==
    [requests |-> EmptyMap, calls |-> 0,
     last |-> [seen |-> FALSE, key |-> "", at |-> 0, mw |-> FALSE, db |-> FALSE,
               mwRecorded |-> FALSE, dbRecorded |-> FALSE]]

\* A call has returned: its frame is gone, its arguments and results remain.
Done(r) ==
    [r EXCEPT !.pc = "idle", !.caller = "none", !.currentTime = 0, !.recent = <<>>,
              !.winCount = 0, !.expiresAt = 0, !.user = ZeroUser, !.arrival = 0,
              !.code = IF r.op = "send" THEN "" ELSE r.code]

\* A service call returns: to Handler.SendOTP, or to the caller.
Return(r) == IF r.via = "http" THEN [r EXCEPT !.pc = "handler"] ELSE Done(r)

\* The latest OTP a StoreOTP wrote for p among the first n, ZeroOTP when none.
StoredAt(p, n) == IF n = 0 THEN ZeroOTP ELSE storeLog[p][n]

Count(m, k) == IF k \in DOMAIN m THEN m[k] ELSE 0

\* -------------------------------------------------------------------- Init
\* The state after main has built the stores, the limiter and the service.
Boot ==
    /\ now = 0
    /\ ticks = 0
    /\ requests = EmptyMap
    /\ rlMu = NoHolder
    /\ nextCleanup = CleanupInterval
    /\ otps = {}
    /\ nextOtpID = 1
    /\ users = EmptyMap
    /\ phoneIndex = EmptyMap
    /\ nextUserID = 1
    /\ sink = [p \in Phones |-> ""]
    /\ th = [t \in Threads |-> IdleThread]
    /\ admitted = [p \in Phones |-> <<>>]
    /\ storeLog = [p \in Phones |-> <<>>]
    /\ passCount = EmptyMap
    /\ httpLog = <<>>
    /\ issued = {}
    /\ auth = NoRequest
    /\ gen = NoGen
    /\ shadow = EmptyMap
    /\ backends = NoBackends
    /\ dbLimiter = NoDbLimiter

Init ==
    /\ Boot
    /\ budget = [send |-> MaxSends, verify |-> MaxVerifies, http |-> 0]
    /\ inputs = [phones |-> {OnePhone}, codes |-> Codes,
                 entropy |-> {EntropyRead(<<7, 94, 97>>), EntropyRead(<<0, 0, 0>>)},
                 faults |-> {}]

InitLimiter ==
    /\ Boot
    /\ budget = [send |-> MaxLimiterSends, verify |-> 0, http |-> 0]
    /\ inputs = [phones |-> {OnePhone}, codes |-> {OneCode},
                 entropy |-> {EntropyRead(<<7, 94, 97>>)}, faults |-> {}]

InitHttp ==
    /\ Boot
    /\ budget = [send |-> 0, verify |-> 0, http |-> MaxHttpSends]
    /\ inputs = [phones |-> {OnePhone}, codes |-> {OneCode},
                 entropy |-> {EntropyRead(<<7, 94, 97>>)}, faults |-> {}]

\* ------------------------------------------------------------ rate limiter
\* Allow, lines 272-282: take the lock, read the clock, filter the window.
AllowEnter(t) ==
    /\ th[t].pc = "allow_enter"
    /\ CanLock(rlMu)
    /\ rlMu' = t
    /\ th' = [th EXCEPT ![t].pc = "allow_exit",
                        ![t].currentTime = now,
                        ![t].recent = Recent(Lookup(requests, th[t].phone), now),
                        ![t].winCount = InWindow(admitted[th[t].phone], now)]
    /\ UNCHANGED <<now, ticks, requests, nextCleanup, admitted, shadow, otpVars, userVars,
                   sink, budget, inputs, passCount, httpLog, tokenVars, gen, backends, dbLimiter>>

\* Allow, lines 284-294: decide, write the window back, unlock, return.
AllowExit(t) ==
    /\ th[t].pc = "allow_exit"
    /\ LET key == th[t].phone
           recent == th[t].recent
           full == LimitReached(Len(recent))
       IN /\ requests' = MapPut(requests, key,
                                IF full THEN RejectedList(recent, th[t].currentTime)
                                ELSE Append(recent, th[t].currentTime))
          /\ admitted' = IF full THEN admitted
                         ELSE [admitted EXCEPT ![key] = Append(@, th[t].currentTime)]
          /\ th' = [th EXCEPT ![t].allowed = ~full,
                              ![t].pc = IF th[t].caller = "mw" THEN "mw_ret" ELSE "send_ret"]
    /\ LET key == th[t].phone
           recent == Recent(Lookup(shadow, key), th[t].currentTime)
           full == LimitReached(Len(recent))
       IN shadow' = MapPut(shadow, key,
                           IF full THEN RejectedList(recent, th[t].currentTime)
                           ELSE Append(recent, th[t].currentTime))
    /\ rlMu' = Unlock(rlMu)
    /\ UNCHANGED <<now, ticks, nextCleanup, otpVars, userVars, sink, budget, inputs,
                   passCount, httpLog, tokenVars, gen, backends, dbLimiter>>

\* One round of cleanup's loop body, run once the ticker has fired.
Cleanup ==
    /\ now >= nextCleanup
    /\ CanLock(rlMu)
    /\ LET kept == {k \in DOMAIN requests : Len(CleanupKeep(requests[k], now)) # 0}
       IN requests' = [k \in kept |-> CleanupKeep(requests[k], now)]
    /\ nextCleanup' = nextCleanup + CleanupInterval
    /\ UNCHANGED <<now, ticks, rlMu, admitted, shadow, otpVars, userVars, sink, th, budget, inputs,
                   passCount, httpLog, tokenVars, gen, backends, dbLimiter>>

\* ----------------------------------------------------------------- SendOTP
\* A caller invokes authService.SendOTP(phoneNumber).
StartSendOTP(t, p) ==
    /\ th[t].pc = "idle"
    /\ budget.send > 0
    /\ budget' = [budget EXCEPT !.send = @ - 1]
    /\ UNCHANGED inputs
    /\ th' = [th EXCEPT ![t] = [IdleThread EXCEPT !.pc = "allow_enter", !.op = "send",
                                                  !.phone = p, !.caller = "svc"]]
    /\ UNCHANGED <<now, ticks, limiterVars, otpVars, userVars, sink, passCount, httpLog,
                   tokenVars, gen, backends, dbLimiter>>

\* if !s.rateLimiter.Allow(phoneNumber), line 106.
RateLimited_Never(allowed) == FALSE

RateLimited(allowed) == ~allowed

\* SendOTP, lines 106-112: the rate-limit answer, then the code and its expiry.
SendOTPGenerate(t) ==
    /\ th[t].pc = "send_ret"
    /\ IF RateLimited(th[t].allowed)
       THEN th' = [th EXCEPT ![t] = Return([th[t] EXCEPT !.err = ErrRateLimitExceeded])]
       ELSE \E e \in inputs.entropy :
              th' = [th EXCEPT ![t].code = GenerateOTP(e), ![t].entropyFailed = e.err,
                               ![t].expiresAt = now + OTPTTL, ![t].pc = "store"]
    /\ UNCHANGED <<now, ticks, limiterVars, otpVars, userVars, sink, budget, inputs,
                   passCount, httpLog, tokenVars, gen, backends, dbLimiter>>

\* InMemoryOTPStore.StoreOTP, called at SendOTP line 120.
StoreOTP(t) ==
    /\ th[t].pc = "store"
    /\ LET otp == [ID |-> nextOtpID, PhoneNumber |-> th[t].phone,
                   OTPCode |-> th[t].code, ExpiresAt |-> th[t].expiresAt]
       IN \E failed \in FaultOutcomes("store") :
            IF failed
            THEN /\ otps' = StoreFailed(otps, otp)
                 /\ UNCHANGED <<storeLog, nextOtpID>>
                 /\ th' = [th EXCEPT ![t] = Return([th[t] EXCEPT !.err = ErrStoreOTP])]
            ELSE /\ otps' = PutOTP(otps, otp)
                 /\ storeLog' = [storeLog EXCEPT ![th[t].phone] = Append(@, otp)]
                 /\ nextOtpID' = nextOtpID + 1
                 /\ th' = [th EXCEPT ![t].pc = "log"]
    /\ UNCHANGED <<now, ticks, limiterVars, userVars, sink, budget, inputs, passCount, httpLog,
                   tokenVars, gen, backends, dbLimiter>>

\* SendOTP, lines 127-129: print the code and return nil.
LogOTP(t) ==
    /\ th[t].pc = "log"
    /\ sink' = [sink EXCEPT ![th[t].phone] = th[t].code]
    /\ th' = [th EXCEPT ![t] = Return([th[t] EXCEPT !.err = ErrNil])]
    /\ UNCHANGED <<now, ticks, limiterVars, otpVars, userVars, budget, inputs, passCount,
                   httpLog, tokenVars, gen, backends, dbLimiter>>

\* ---------------------------------------------------- VerifyOTPAndAuthenticate
\* History: the ID of the stored OTP that a returned verification of another
\* caller read for p and found different from its code, 0 when there is none.
MismatchedBefore(t, p) ==
    LET ids == {th[u].storedOTP.ID : u \in {v \in Threads \ {t} :
                    /\ th[v].op = "verify" /\ th[v].pc = "idle" /\ th[v].phone = p
                    /\ th[v].getErr = ErrNil
                    /\ th[v].storedOTP.OTPCode # th[v].code}}
    IN IF ids = {} THEN 0 ELSE CHOOSE i \in ids : \A j \in ids : j <= i

\* A caller invokes authService.VerifyOTPAndAuthenticate(phoneNumber, receivedOTP).
StartVerify(t, p, c) ==
    /\ th[t].pc = "idle"
    /\ budget.verify > 0
    /\ budget' = [budget EXCEPT !.verify = @ - 1]
    /\ UNCHANGED inputs
    /\ th' = [th EXCEPT ![t] = [IdleThread EXCEPT !.pc = "get", !.op = "verify",
                                                  !.phone = p, !.code = c,
                                                  !.mismatchedID = MismatchedBefore(t, p)]]
    /\ UNCHANGED <<now, ticks, limiterVars, otpVars, userVars, sink, passCount, httpLog,
                   tokenVars, gen, backends, dbLimiter>>

\* InMemoryOTPStore.GetOTP, called at line 134.
GetOTP(t) ==
    /\ th[t].pc = "get"
    /\ LET p == th[t].phone
           n == Len(storeLog[p])
           seen == [th EXCEPT ![t].pc = "check",
                              ![t].seenStores = n,
                              ![t].priorSuccess =
                                  /\ n > 0
                                  /\ storeLog[p][n].ID \in DOMAIN passCount
                                  /\ storeLog[p][n].OTPCode = th[t].code]
       IN IF RowsOf(otps, p) = {}
          THEN th' = [seen EXCEPT ![t].getErr = ErrNotFound, ![t].storedOTP = ZeroOTP]
          ELSE \E r \in RowsOf(otps, p) :
                 th' = [seen EXCEPT ![t].getErr = ErrNil, ![t].storedOTP = r]
    /\ UNCHANGED <<now, ticks, limiterVars, otpVars, userVars, sink, budget, inputs,
                   passCount, httpLog, tokenVars, gen, backends, dbLimiter>>

\* Lines 135-137: the three-way test, with the clock read by IsExpired.
VerifyCheck(t) ==
    /\ th[t].pc = "check"
    /\ LET e == CheckOTP(th[t].getErr, th[t].storedOTP, th[t].code, now)
           r == [th[t] EXCEPT !.err = e, !.checkTime = now]
       IN th' = [th EXCEPT ![t] = IF e = ErrNil THEN [r EXCEPT !.pc = "delete"]
                                  ELSE Done(r)]
    /\ UNCHANGED <<now, ticks, limiterVars, otpVars, userVars, sink, budget, inputs,
                   passCount, httpLog, tokenVars, gen, backends, dbLimiter>>

\* InMemoryOTPStore.DeleteOTP, called at line 141; its result is dropped.
DeleteOTP(t) ==
    /\ th[t].pc = "delete"
    /\ \E failed \in FaultOutcomes("delete") :
         /\ otps' = IF failed THEN otps ELSE DeleteRow(otps, th[t].phone)
         /\ th' = [th EXCEPT ![t].deleteErr = IF failed THEN ErrDBDelete ELSE ErrNil,
                             ![t].pc = "getuser"]
    /\ UNCHANGED <<now, ticks, limiterVars, nextOtpID, storeLog, userVars, sink,
                   budget, inputs, passCount, httpLog, tokenVars, gen, backends, dbLimiter>>

\* authRepository.GetUserByPhoneNumber over InMemoryUserStore, line 144.
GetUserByPhoneNumber(t) ==
    /\ th[t].pc = "getuser"
    /\ LET p == th[t].phone
           found == p \in DOMAIN phoneIndex /\ phoneIndex[p] \in DOMAIN users
       IN \E failed \in FaultOutcomes("lookup") :
            th' = IF failed
                  THEN [th EXCEPT ![t] = Done([th[t] EXCEPT
                                                 !.err = VerifyFailure("lookup", ErrDBLookup)])]
                  ELSE IF found
                  THEN [th EXCEPT ![t].user = users[phoneIndex[p]], ![t].pc = "jwt"]
                  ELSE [th EXCEPT ![t].pc = "create"]
    /\ UNCHANGED <<now, ticks, limiterVars, otpVars, userVars, sink, budget, inputs,
                   passCount, httpLog, tokenVars, gen, backends, dbLimiter>>

\* InMemoryUserStore.CreateUser, called at line 149.
CreateUser(t) ==
    /\ th[t].pc = "create"
    /\ LET p == th[t].phone
           u == [ID |-> nextUserID, PhoneNumber |-> p, CreatedAt |-> now]
       IN \E failed \in FaultOutcomes("create") :
            IF failed \/ PhoneTaken(phoneIndex, p)
            THEN /\ th' = [th EXCEPT ![t] =
                             Done([th[t] EXCEPT
                                     !.createErr = IF failed THEN ErrDBCreate
                                                   ELSE ErrAlreadyExists,
                                     !.err = VerifyFailure("create", ErrNil)])]
                 /\ UNCHANGED userVars
            ELSE /\ users' = MapPut(users, nextUserID, u)
                 /\ phoneIndex' = IndexPut(phoneIndex, p, nextUserID)
                 /\ nextUserID' = nextUserID + 1
                 /\ th' = [th EXCEPT ![t].user = u, ![t].created = TRUE, ![t].pc = "jwt"]
    /\ UNCHANGED <<now, ticks, limiterVars, otpVars, sink, budget, inputs, passCount, httpLog,
                   tokenVars, gen, backends, dbLimiter>>

\* generateJWT and the return of the token, lines 166-172.
GenerateJWT(t) ==
    /\ th[t].pc = "jwt"
    /\ \E failed \in FaultOutcomes("sign") :
         IF failed
         THEN /\ th' = [th EXCEPT ![t] = Done([th[t] EXCEPT
                                                 !.err = VerifyFailure("jwt", ErrNil)])]
              /\ UNCHANGED passCount
         ELSE /\ th' = [th EXCEPT ![t] =
                         Done([th[t] EXCEPT !.token = generateJWT(th[t].user.ID,
                                                                  th[t].user.PhoneNumber, now),
                                            !.err = ErrNil])]
              /\ passCount' = MapPut(passCount, th[t].storedOTP.ID,
                                     Count(passCount, th[t].storedOTP.ID) + 1)
    /\ UNCHANGED <<now, ticks, limiterVars, otpVars, userVars, sink, budget, inputs, httpLog,
                   tokenVars, gen, backends, dbLimiter>>

\* ---------------------------------------------------------- POST /otp/send
\* A request reaches OTPRateLimiter, which binds the body and calls Allow.
HttpSendOTP(t, p) ==
    /\ th[t].pc = "idle"
    /\ budget.http > 0
    /\ budget' = [budget EXCEPT !.http = @ - 1]
    /\ UNCHANGED inputs
    /\ th' = [th EXCEPT ![t] = [IdleThread EXCEPT !.pc = "allow_enter", !.op = "send",
                                                  !.via = "http", !.phone = p,
                                                  !.caller = "mw", !.arrival = now]]
    /\ UNCHANGED <<now, ticks, limiterVars, otpVars, userVars, sink, passCount, httpLog,
                   tokenVars, gen, backends, dbLimiter>>

\* OTPRateLimiter, lines 336-348: abort with 429, or run Handler.SendOTP,
\* which calls authService.SendOTP.
OTPRateLimiterNext(t) ==
    /\ th[t].pc = "mw_ret"
    /\ IF ~th[t].allowed
       THEN /\ th' = [th EXCEPT ![t] = Done([th[t] EXCEPT !.status = 429])]
            /\ httpLog' = Append(httpLog, [phone |-> th[t].phone,
                                           arrival |-> th[t].arrival, status |-> 429])
       ELSE /\ th' = [th EXCEPT ![t].caller = "svc", ![t].pc = "allow_enter"]
            /\ UNCHANGED httpLog
    /\ UNCHANGED <<now, ticks, limiterVars, otpVars, userVars, sink, budget, inputs, passCount,
                   tokenVars, gen, backends, dbLimiter>>

\* Handler.SendOTP, lines 54-64: the status for SendOTP's result.
HandlerSendOTP(t) ==
    /\ th[t].pc = "handler"
    /\ LET status == IF th[t].err = ErrNil THEN 200
                     ELSE IF th[t].err = ErrRateLimitExceeded THEN 429 ELSE 500
       IN /\ th' = [th EXCEPT ![t] = Done([th[t] EXCEPT !.status = status])]
          /\ httpLog' = Append(httpLog, [phone |-> th[t].phone,
                                         arrival |-> th[t].arrival, status |-> status])
    /\ UNCHANGED <<now, ticks, limiterVars, otpVars, userVars, sink, budget, inputs, passCount,
                   tokenVars, gen, backends, dbLimiter>>

\* ------------------------------------------------------------------- clock
Tick(d) ==
    /\ ticks < MaxTicks
    /\ ticks' = ticks + 1
    /\ now' = now + d
    /\ UNCHANGED <<limiterVars, otpVars, userVars, sink, th, budget, inputs, passCount, httpLog,
                   tokenVars, gen, backends, dbLimiter>>

\* ------------------------------------------------------------ specifications
\* The limiter and the code store under SendOTP alone.
SendSteps ==
    \/ \E t \in Threads, p \in inputs.phones : StartSendOTP(t, p)
    \/ \E t \in Threads : AllowEnter(t)
    \/ \E t \in Threads : AllowExit(t)
    \/ \E t \in Threads : SendOTPGenerate(t)
    \/ \E t \in Threads : StoreOTP(t)
    \/ \E t \in Threads : LogOTP(t)

NextLimiter ==
    \/ SendSteps
    \/ Cleanup
    \/ \E d \in TickSteps : Tick(d)

SpecLimiter == InitLimiter /\ [][NextLimiter]_vars

\* The service called directly: SendOTP and VerifyOTPAndAuthenticate.
Next ==
    \/ SendSteps
    \/ Cleanup
    \/ \E d \in TickSteps : Tick(d)
    \/ \E t \in Threads, p \in inputs.phones, c \in inputs.codes : StartVerify(t, p, c)
    \/ \E t \in Threads : GetOTP(t)
    \/ \E t \in Threads : VerifyCheck(t)
    \/ \E t \in Threads : DeleteOTP(t)
    \/ \E t \in Threads : GetUserByPhoneNumber(t)
    \/ \E t \in Threads : CreateUser(t)
    \/ \E t \in Threads : GenerateJWT(t)

Spec == Init /\ [][Next]_vars

\* Enough SendOTP calls for the limiter to reject one, and a verification.
InitReject ==
    /\ Boot
    /\ budget = [send |-> MaxRejectSends, verify |-> MaxRejectVerifies, http |-> 0]
    /\ inputs = [phones |-> {OnePhone}, codes |-> {OneCode},
                 entropy |-> {EntropyRead(<<7, 94, 97>>)}, faults |-> {}]

SpecReject == InitReject /\ [][Next]_vars

\* Callers with two phone numbers.
InitIso ==
    /\ Boot
    /\ budget = [send |-> MaxIsoSends, verify |-> MaxIsoVerifies, http |-> 0]
    /\ inputs = [phones |-> Phones, codes |-> {OneCode},
                 entropy |-> {EntropyRead(<<7, 94, 97>>)}, faults |-> {}]

SpecIso == InitIso /\ [][Next]_vars

\* The same calls under fair scheduling.  The Go scheduler runs every runnable
\* goroutine, so a step that stays possible is taken; sync.Mutex hands the lock
\* to a goroutine that has waited (starvation mode), so a Lock that is possible
\* again and again is taken.
InitLive ==
    /\ Boot
    /\ budget = [send |-> MaxLiveSends, verify |-> MaxLiveVerifies, http |-> 0]
    /\ inputs = [phones |-> {OnePhone}, codes |-> {OneCode},
                 entropy |-> {EntropyRead(<<7, 94, 97>>)}, faults |-> {}]

ThreadStep(t) ==
    \/ AllowEnter(t) \/ AllowExit(t) \/ SendOTPGenerate(t) \/ StoreOTP(t) \/ LogOTP(t)
    \/ GetOTP(t) \/ VerifyCheck(t) \/ DeleteOTP(t) \/ GetUserByPhoneNumber(t)
    \/ CreateUser(t) \/ GenerateJWT(t)

Fairness == \A t \in Threads : WF_vars(ThreadStep(t)) /\ SF_vars(AllowEnter(t))

SpecLive == InitLive /\ [][Next]_vars /\ Fairness

\* The service behind the router: POST /otp/send through OTPRateLimiter.
NextHttp ==
    \/ \E t \in Threads, p \in inputs.phones : HttpSendOTP(t, p)
    \/ \E t \in Threads : OTPRateLimiterNext(t)
    \/ \E t \in Threads : AllowEnter(t)
    \/ \E t \in Threads : AllowExit(t)
    \/ \E t \in Threads : SendOTPGenerate(t)
    \/ \E t \in Threads : StoreOTP(t)
    \/ \E t \in Threads : LogOTP(t)
    \/ \E t \in Threads : HandlerSendOTP(t)
    \/ Cleanup
    \/ \E d \in TickSteps : Tick(d)

SpecHttp == InitHttp /\ [][NextHttp]_vars

\* The service over a database that can fail and an entropy source that can
\* fail, with the clock standing still.
InitFaults ==
    /\ Boot
    /\ budget = [send |-> MaxFaultSends, verify |-> MaxFaultVerifies, http |-> 0]
    /\ inputs = [phones |-> {OnePhone}, codes |-> {OneCode},
                 entropy |-> {EntropyRead(<<7, 94, 97>>), EntropyFailure},
                 faults |-> {"store", "delete", "lookup", "create", "sign"}]

NextFaults ==
    \/ SendSteps
    \/ \E t \in Threads, p \in inputs.phones, c \in inputs.codes : StartVerify(t, p, c)
    \/ \E t \in Threads : GetOTP(t)
    \/ \E t \in Threads : VerifyCheck(t)
    \/ \E t \in Threads : DeleteOTP(t)
    \/ \E t \in Threads : GetUserByPhoneNumber(t)
    \/ \E t \in Threads : CreateUser(t)
    \/ \E t \in Threads : GenerateJWT(t)

SpecFaults == InitFaults /\ [][NextFaults]_vars

\* ---------------------------------------------------------- AuthMiddleware
\* generateJWT returns a token for user id and phoneNumber.
MintToken(id, phoneNumber) ==
    /\ Cardinality(issued) < MaxMints
    /\ issued' = issued \cup {[token |-> generateJWT(id, phoneNumber, now),
                                id |-> id, phone |-> phoneNumber, at |-> now]}
    /\ UNCHANGED <<now, ticks, limiterVars, otpVars, userVars, sink, th, budget, inputs,
                   passCount, httpLog, auth, gen, backends, dbLimiter>>

\* The claims a client can put into a token of its own making.
ForgedClaims ==
    {[sub |-> sub, phone |-> phone, iat |-> 0, exp |-> JWTTTL] :
        sub \in {JString(UUIDString(1)), JString("not-a-uuid"), JNumber("1"), JAbsent},
        phone \in {JString(OnePhone), JNumber("15551234567"), JAbsent}}

\* The tokens a client can present: the issued ones, issued ones with the
\* sub claim rewritten under the old signature, tokens signed by the client
\* under any algorithm with the server's key or another, and a string that is
\* no JWT.
Presentable ==
    {i.token : i \in issued}
        \cup {[i.token EXCEPT !.claims.sub = JString(UUIDString(2))] : i \in issued}
        \cup {SignedString(alg, key, c) :
                 alg \in Algs, key \in {JWTSecret, OtherKey}, c \in ForgedClaims}
        \cup {NoToken}

\* The Authorization headers a client can send.
Headers ==
    {[n |-> 2, scheme |-> "Bearer", token |-> tok] : tok \in Presentable}
        \cup {[n |-> 2, scheme |-> "Basic", token |-> i.token] : i \in issued}
        \cup {[n |-> 3, scheme |-> "Bearer", token |-> i.token] : i \in issued}
        \cup {[n |-> 1, scheme |-> "Bearer", token |-> NoToken], NoHeader}

\* A request with Authorization header h reaches a protected route.
Present(h) ==
    /\ auth' = [header |-> h, at |-> now,
                result |-> AuthMiddleware(h, JWTSecret, now), seen |-> TRUE]
    /\ UNCHANGED <<now, ticks, limiterVars, otpVars, userVars, sink, th, budget, inputs,
                   passCount, httpLog, issued, gen, backends, dbLimiter>>

InitToken ==
    /\ Boot
    /\ budget = [send |-> 0, verify |-> 0, http |-> 0]
    /\ inputs = [phones |-> {OnePhone}, codes |-> {OneCode},
                 entropy |-> {EntropyRead(<<7, 94, 97>>)}, faults |-> {}]

\* Minting and presenting tokens, with the clock reaching the tokens' expiry.
NextToken ==
    \/ \E id \in {1, 2}, p \in inputs.phones : MintToken(id, p)
    \/ \E h \in Headers : Present(h)
    \/ \E d \in {1, JWTTTL} : Tick(d)

SpecToken == InitToken /\ [][NextToken]_vars

\* ------------------------------------------------------------- GenerateOTP
\* The byte values the generator is run on.
ByteSamples == {0, 7, 15, 63, 66, 94, 97, 255}

\* One call of GenerateOTP, the entropy read having the outcome e.
CallGenerateOTP(e) ==
    /\ gen' = [err |-> e.err, b |-> e.b, code |-> GenerateOTP(e)]
    /\ UNCHANGED <<now, ticks, limiterVars, otpVars, userVars, sink, th, budget, inputs,
                   passCount, httpLog, tokenVars, backends, dbLimiter>>

InitGen ==
    /\ Boot
    /\ budget = [send |-> 0, verify |-> 0, http |-> 0]
    /\ inputs = [phones |-> {OnePhone}, codes |-> {OneCode},
                 entropy |-> {EntropyFailure}
                     \cup {EntropyRead(<<b0, b1, b2>>) :
                              b0 \in ByteSamples, b1 \in ByteSamples, b2 \in ByteSamples},
                 faults |-> {}]

NextGen == \E e \in inputs.entropy : CallGenerateOTP(e)

SpecGen == InitGen /\ [][NextGen]_vars

\* ------------------------------------------------------------- the two stores
\* InMemoryUserStore and InMemoryOTPStore next to PostgresStore, given the
\* same calls.  A store is its otps rows and the phone numbers of its users
\* in the order they were created; instants are in nanoseconds.
PhoneColumn == 20
CodeColumn == 6
MicroNanos == 1000
ErrDBStore == "failed to store OTP"

LongPhone == "+15551234567890123456"
StorePhones == Phones \cup {LongPhone}
StoreExpiries == {2000, 2250}
ListLimits == {1, 2}
ListOffsets == {0, 1}
ListSearches == {"", OnePhone, "+1555"}

\* What a store call returns: the error, and the fields of the row it read.
Returned(err, row) ==
    [class |-> err, code |-> row.OTPCode, expiry |-> row.ExpiresAt, phone |-> row.PhoneNumber]
NoRow == [PhoneNumber |-> "", OTPCode |-> "", ExpiresAt |-> 0]
UserRow(p) == [PhoneNumber |-> p, OTPCode |-> "", ExpiresAt |-> 0]

RowsFor(st, p) == {r \in st.otps : r.PhoneNumber = p}
UserExists(st, p) == \E i \in 1..Len(st.users) : st.users[i] = p

\* A TIMESTAMPTZ column keeps microseconds: the value is rounded on input.
PgTimestamp(ns) == ((ns + (MicroNanos \div 2)) \div MicroNanos) * MicroNanos

\* strings.Contains, which is what LIKE '%search%' computes for a search
\* without wildcards.
Contains(s, sub) ==
    \E i \in 1..(Len(s) - Len(sub) + 1) : SubSeq(s, i, i + Len(sub) - 1) = sub

InMemoryStoreOTP(st, otp) ==
    [st |-> [st EXCEPT !.otps = {r \in @ : r.PhoneNumber # otp.PhoneNumber} \cup {otp}],
     res |-> Returned(ErrNil, NoRow)]

PostgresStoreOTP(st, otp) ==
    IF Len(otp.PhoneNumber) > PhoneColumn \/ Len(otp.OTPCode) > CodeColumn
    THEN [st |-> st, res |-> Returned(ErrDBStore, NoRow)]
    ELSE [st |-> [st EXCEPT !.otps = {r \in @ : r.PhoneNumber # otp.PhoneNumber}
                                        \cup {[otp EXCEPT !.ExpiresAt = PgTimestamp(@)]}],
          res |-> Returned(ErrNil, NoRow)]

InMemoryGetOTP(st, p) ==
    [st |-> st,
     res |-> IF RowsFor(st, p) = {} THEN Returned(ErrNotFound, NoRow)
             ELSE Returned(ErrNil, CHOOSE r \in RowsFor(st, p) : TRUE)]

PostgresGetOTP(st, p) ==
    [st |-> st,
     res |-> IF RowsFor(st, p) = {} THEN Returned(ErrNotFound, NoRow)
             ELSE Returned(ErrNil, CHOOSE r \in RowsFor(st, p) : TRUE)]

InMemoryDeleteOTP(st, p) ==
    [st |-> [st EXCEPT !.otps = @ \ RowsFor(st, p)], res |-> Returned(ErrNil, NoRow)]

PostgresDeleteOTP(st, p) ==
    [st |-> [st EXCEPT !.otps = @ \ RowsFor(st, p)], res |-> Returned(ErrNil, NoRow)]

InMemoryGetUserByPhoneNumber(st, p) ==
    [st |-> st,
     res |-> IF UserExists(st, p) THEN Returned(ErrNil, UserRow(p))
             ELSE Returned(ErrNotFound, NoRow)]

PostgresGetUserByPhoneNumber(st, p) ==
    [st |-> st,
     res |-> IF UserExists(st, p) THEN Returned(ErrNil, UserRow(p))
             ELSE Returned(ErrNotFound, NoRow)]

InMemoryCreateUser(st, p) ==
    IF UserExists(st, p) THEN [st |-> st, res |-> Returned(ErrAlreadyExists, NoRow)]
    ELSE [st |-> [st EXCEPT !.users = Append(@, p)], res |-> Returned(ErrNil, UserRow(p))]

PostgresCreateUser(st, p) ==
    IF Len(p) > PhoneColumn THEN [st |-> st, res |-> Returned(ErrDBCreate, NoRow)]
    ELSE IF UserExists(st, p) THEN [st |-> st, res |-> Returned(ErrAlreadyExists, NoRow)]
    ELSE [st |-> [st EXCEPT !.users = Append(@, p)], res |-> Returned(ErrNil, UserRow(p))]

\* filteredUsers[offset:end] of ListUsers, and LIMIT limit OFFSET offset.
Page_IgnoresOffset(list, limit, offset) ==
    SubSeq(list, 1, IF limit > Len(list) THEN Len(list) ELSE limit)

Page(list, limit, offset) ==
    IF offset >= Len(list) THEN <<>>
    ELSE SubSeq(list, offset + 1, IF offset + limit > Len(list) THEN Len(list)
                                  ELSE offset + limit)

\* The orders in which a range over the users map can visit its entries.
RangeOrders(st) ==
    {o \in [1..Len(st.users) -> 1..Len(st.users)] :
        \A i, j \in 1..Len(st.users) : i # j => o[i] # o[j]}

\* InMemoryUserStore.ListUsers when the range visits the map in order o:
\* filteredUsers, then the page and the total, all under one RLock.
InMemoryFiltered(st, o, search) ==
    SelectSeq([i \in 1..Len(st.users) |-> st.users[o[i]]],
              LAMBDA u : search = "" \/ u = search)

InMemoryListUsers(st, o, limit, offset, search) ==
    [page |-> Page(InMemoryFiltered(st, o, search), limit, offset),
     total |-> Len(InMemoryFiltered(st, o, search))]

\* PostgresStore.ListUsers: the rows of FROM users [WHERE phone_number LIKE
\* %search%] ORDER BY created_at DESC, which the first query counts and the
\* second, a statement of its own, pages.
PostgresFiltered(st, search) ==
    SelectSeq([i \in 1..Len(st.users) |-> st.users[Len(st.users) + 1 - i]],
              LAMBDA u : search = "" \/ Contains(u, search))

PostgresCount(st, search) == Len(PostgresFiltered(st, search))

PostgresListUsers(st, limit, offset, search) ==
    Page(PostgresFiltered(st, search), limit, offset)

notBackends == <<now, ticks, limiterVars, otpVars, userVars, sink, th, budget, inputs,
                 passCount, httpLog, tokenVars, gen, dbLimiter>>

\* One call made on both stores.
Called(op, m, p) ==
    /\ backends' = [backends EXCEPT !.mem = m.st, !.pg = p.st, !.calls = @ + 1,
                                    !.last = [op |-> op, mem |-> m.res, pg |-> p.res]]
    /\ UNCHANGED notBackends

BothStoreOTP(p, c, e) ==
    /\ backends.calls < MaxStoreCalls
    /\ LET otp == [PhoneNumber |-> p, OTPCode |-> c, ExpiresAt |-> e]
       IN Called("StoreOTP", InMemoryStoreOTP(backends.mem, otp),
                 PostgresStoreOTP(backends.pg, otp))

BothGetOTP(p) ==
    /\ backends.calls < MaxStoreCalls
    /\ Called("GetOTP", InMemoryGetOTP(backends.mem, p), PostgresGetOTP(backends.pg, p))

BothDeleteOTP(p) ==
    /\ backends.calls < MaxStoreCalls
    /\ Called("DeleteOTP", InMemoryDeleteOTP(backends.mem, p),
              PostgresDeleteOTP(backends.pg, p))

BothGetUserByPhoneNumber(p) ==
    /\ backends.calls < MaxStoreCalls
    /\ Called("GetUserByPhoneNumber", InMemoryGetUserByPhoneNumber(backends.mem, p),
              PostgresGetUserByPhoneNumber(backends.pg, p))

BothCreateUser(p) ==
    /\ backends.calls < MaxStoreCalls
    /\ Called("CreateUser", InMemoryCreateUser(backends.mem, p),
              PostgresCreateUser(backends.pg, p))

\* ListUsers called on both stores: the in-memory one answers at once, the
\* PostgreSQL one has run its COUNT query.
BothListUsers(limit, offset, search) ==
    /\ backends.calls < MaxStoreCalls
    /\ ~backends.list.pgPending
    /\ \E o \in RangeOrders(backends.mem) :
          LET m == InMemoryListUsers(backends.mem, o, limit, offset, search)
          IN backends' = [backends EXCEPT
                 !.calls = @ + 1,
                 !.last = [op |-> "ListUsers", mem |-> NoResult, pg |-> NoResult],
                 !.list = [seen |-> TRUE, args |-> <<limit, offset, search>>,
                           usersAt |-> backends.mem.users,
                           page |-> m.page, total |-> m.total,
                           pgUsersAt |-> backends.pg.users,
                           pgTotal |-> PostgresCount(backends.pg, search),
                           pgPending |-> TRUE,
                           pgUsersAtPage |-> <<>>, pgPage |-> <<>>]]
    /\ UNCHANGED notBackends

\* PostgresStore.ListUsers runs its second query and returns.
PostgresListPage ==
    /\ backends.list.pgPending
    /\ backends' = [backends EXCEPT
           !.list.pgPending = FALSE,
           !.list.pgUsersAtPage = backends.pg.users,
           !.list.pgPage = PostgresListUsers(backends.pg, backends.list.args[1],
                                             backends.list.args[2], backends.list.args[3])]
    /\ UNCHANGED notBackends

InitStores ==
    /\ Boot
    /\ budget = [send |-> 0, verify |-> 0, http |-> 0]
    /\ inputs = [phones |-> StorePhones, codes |-> {OneCode},
                 entropy |-> {EntropyRead(<<7, 94, 97>>)}, faults |-> {}]

NextStores ==
    \/ \E p \in inputs.phones, c \in inputs.codes, e \in StoreExpiries : BothStoreOTP(p, c, e)
    \/ \E p \in inputs.phones : BothGetOTP(p)
    \/ \E p \in inputs.phones : BothDeleteOTP(p)
    \/ \E p \in inputs.phones : BothGetUserByPhoneNumber(p)
    \/ \E p \in inputs.phones : BothCreateUser(p)
    \/ \E limit \in ListLimits, offset \in ListOffsets, search \in ListSearches :
          BothListUsers(limit, offset, search)
    \/ PostgresListPage

SpecStores == InitStores /\ [][NextStores]_vars

\* ------------------------------------------------------- the two rate limiters
\* database.InMemoryRateLimiter, whose window and maximum are literals of Allow.
DbWindow == 10
DbMaxReq == 3

DbRecent(list, currentTime) == SelectSeq(list, LAMBDA x : currentTime - x <= DbWindow)

\* What database's Allow leaves in r.requests[phoneNumber] when it refuses:
\* it returns before any write.
DbRejected_Recording(stored, recent, currentTime) == Append(recent, currentTime)

DbRejected(stored, recent, currentTime) == stored

\* database.InMemoryRateLimiter.Allow on the map reqs at currentTime.
DbAllow(reqs, phoneNumber, currentTime) ==
    LET recent == DbRecent(Lookup(reqs, phoneNumber), currentTime)
    IN IF Len(recent) >= DbMaxReq
       THEN [allowed |-> FALSE,
             requests |-> IF phoneNumber \in DOMAIN reqs
                          THEN MapPut(reqs, phoneNumber,
                                      DbRejected(reqs[phoneNumber], recent, currentTime))
                          ELSE reqs]
       ELSE [allowed |-> TRUE,
             requests |-> MapPut(reqs, phoneNumber, Append(recent, currentTime))]

\* middleware.InMemoryRateLimiter.Allow from Lock to Unlock, on the map reqs.
MwAllow(reqs, key, currentTime) ==
    LET recent == Recent(Lookup(reqs, key), currentTime)
    IN IF LimitReached(Len(recent))
       THEN [allowed |-> FALSE,
             requests |-> MapPut(reqs, key, RejectedList(recent, currentTime))]
       ELSE [allowed |-> TRUE,
             requests |-> MapPut(reqs, key, Append(recent, currentTime))]

\* How many times instant x is in list.
Occurrences(list, x) == Len(SelectSeq(list, LAMBDA y : y = x))

\* One caller calls Allow(key) on each limiter at the same instant.
BothAllow(key) ==
    /\ dbLimiter.calls < MaxBothAllows
    /\ CanLock(rlMu)
    /\ LET m == MwAllow(requests, key, now)
           d == DbAllow(dbLimiter.requests, key, now)
       IN /\ requests' = m.requests
          /\ admitted' = IF m.allowed THEN [admitted EXCEPT ![key] = Append(@, now)]
                         ELSE admitted
          /\ dbLimiter' =
                [requests |-> d.requests, calls |-> dbLimiter.calls + 1,
                 last |-> [seen |-> TRUE, key |-> key, at |-> now,
                           mw |-> m.allowed, db |-> d.allowed,
                           mwRecorded |-> Occurrences(Lookup(m.requests, key), now)
                                            > Occurrences(Lookup(requests, key), now),
                           dbRecorded |-> Occurrences(Lookup(d.requests, key), now)
                                            > Occurrences(Lookup(dbLimiter.requests, key), now)]]
    /\ UNCHANGED <<now, ticks, rlMu, nextCleanup, shadow, otpVars, userVars, sink,
                   th, budget, inputs, passCount, httpLog, tokenVars, gen, backends>>

\* The clock between two calls, by one minute or by ten.
TickBoth(d) ==
    /\ ticks < MaxBothTicks
    /\ ticks' = ticks + 1
    /\ now' = now + d
    /\ UNCHANGED <<limiterVars, otpVars, userVars, sink, th, budget, inputs, passCount,
                   httpLog, tokenVars, gen, backends, dbLimiter>>

InitBoth ==
    /\ Boot
    /\ budget = [send |-> 0, verify |-> 0, http |-> 0]
    /\ inputs = [phones |-> Phones, codes |-> {OneCode},
                 entropy |-> {EntropyRead(<<7, 94, 97>>)}, faults |-> {}]

NextBoth ==
    \/ \E key \in inputs.phones : BothAllow(key)
    \/ \E d \in TickSteps : TickBoth(d)

SpecBoth == InitBoth /\ [][NextBoth]_vars

\* ------------------------------------------------------------------ claims
\* The latest instant the clock can show.
Horizon == MaxTicks * CleanupInterval

\* Thread t runs or has run a verification that is past its OTP check.
Checked(t) == th[t].op = "verify" /\ th[t].pc \notin {"get", "check"}

\* The instants of list that count against a key at instant u.
Counting(list, u) == SelectSeq(list, LAMBDA x : u - x <= timeWindow)

\* C1: of the verifications that read one stored credential, at most one
\* returns a token; the other fails for want of a stored credential.
C1_ExactlyOneVerifySucceeds ==
    \A id \in DOMAIN passCount : passCount[id] <= 1

\* C2: a verification that starts after a verification of the same code has
\* returned its token, with no StoreOTP for the phone since that one read the
\* code, fails with ErrInvalidOTP.
C2_SecondVerifyFails ==
    \A t \in Threads :
        (Checked(t) /\ th[t].priorSuccess)
            => /\ th[t].err = ErrInvalidOTP
               /\ th[t].token = NoToken
               /\ th[t].pc = "idle"

C2_Witness ==
    \E t \in Threads :
        /\ Checked(t)
        /\ th[t].priorSuccess
        /\ th[t].getErr = ErrNotFound
        /\ th[t].err = ErrInvalidOTP

\* C3: a SendOTP is refused with ErrRateLimitExceeded exactly when maxReq
\* earlier SendOTP calls for the phone were admitted at instants no more than
\* timeWindow before it; once the oldest of them is further back it is admitted.
C3_RateLimitWindow ==
    \A t \in Threads :
        /\ (th[t].op = "send" /\ th[t].pc = "send_ret")
               => (th[t].allowed <=> th[t].winCount < maxReq)
        /\ (th[t].op = "send" /\ th[t].pc = "idle")
               => th[t].err = IF th[t].allowed THEN ErrNil ELSE ErrRateLimitExceeded

C3_Witness ==
    \E t, u \in Threads :
        LET a == admitted[th[t].phone]
        IN /\ th[u].op = "send" /\ th[u].pc = "idle"
           /\ th[u].err = ErrRateLimitExceeded
           /\ th[u].phone = th[t].phone
           /\ th[t].op = "send" /\ th[t].pc = "send_ret" /\ th[t].allowed
           /\ Len(a) = maxReq + 1
           /\ a[maxReq] - a[1] < timeWindow
           /\ a[maxReq + 1] - a[maxReq] > timeWindow

\* C4: a POST /otp/send is answered 429 only when three requests for the same
\* phone that arrived within the two minutes before it were served.
C4_FirstThreeServed ==
    \A i \in DOMAIN httpLog :
        httpLog[i].status = 429
            => Cardinality({j \in DOMAIN httpLog :
                               /\ j # i
                               /\ httpLog[j].phone = httpLog[i].phone
                               /\ httpLog[j].status = 200
                               /\ httpLog[j].arrival <= httpLog[i].arrival
                               /\ httpLog[i].arrival - httpLog[j].arrival <= timeWindow})
                   >= maxReq

\* C5: the list the limiter holds for a key never has more than maxReq
\* instants, so never more than maxReq within the trailing window.
C5_WindowAtMostN ==
    \A k \in DOMAIN requests :
        /\ Len(requests[k]) <= maxReq
        /\ Len(Counting(requests[k], now)) <= maxReq

C5_Witness ==
    \E t \in Threads :
        /\ th[t].pc = "send_ret"
        /\ ~th[t].allowed
        /\ Len(Lookup(requests, th[t].phone)) = maxReq

\* C6: of the Allow calls on one key that return true, no more than maxReq
\* lie within one window, however the calls interleave.
C6_AdmittedPerWindow ==
    \A p \in Phones :
        LET a == admitted[p]
        IN \A i \in DOMAIN a :
               Cardinality({j \in DOMAIN a : a[j] <= a[i] /\ a[i] - a[j] <= timeWindow})
                   <= maxReq

C6_Witness ==
    \E t, u \in Threads :
        /\ th[t].pc = "allow_exit"
        /\ th[u].pc = "allow_enter"
        /\ th[u].phone = th[t].phone
        /\ Len(th[t].recent) = maxReq - 1
        /\ rlMu = t

\* C7: an Allow that returns false adds no instant: at every later instant the
\* instants that count against the key are those that counted without it.
C7_RejectedRecordsNothing ==
    [][\A t \in Threads :
          (th[t].pc = "allow_exit" /\ th'[t].pc # "allow_exit" /\ ~th'[t].allowed)
              => /\ \A u \in th[t].currentTime .. Horizon :
                        Counting(Lookup(requests', th[t].phone), u)
                            = Counting(Lookup(requests, th[t].phone), u)
                 /\ admitted' = admitted]_vars

C7_Witness ==
    \E t \in Threads :
        /\ th[t].op = "send"
        /\ th[t].pc = "send_ret"
        /\ ~th[t].allowed
        /\ th[t].winCount = maxReq

\* C8: a verification with the stored code, checked after the code's
\* ExpiresAt, fails with ErrInvalidOTP; and a stored code leaves the store only
\* by a StoreOTP for its phone or by the DeleteOTP of a verification that
\* passed its check, never by expiring.
C8_ExpiredCodeFails ==
    /\ [](\A t \in Threads :
            (/\ Checked(t)
             /\ th[t].getErr = ErrNil
             /\ th[t].storedOTP.OTPCode = th[t].code
             /\ th[t].checkTime > th[t].storedOTP.ExpiresAt)
                => /\ th[t].err = ErrInvalidOTP
                   /\ th[t].token = NoToken
                   /\ th[t].pc = "idle")
    /\ [][\A r \in otps :
             r \notin otps'
                 => \E t \in Threads :
                        /\ th[t].phone = r.PhoneNumber
                        /\ \/ th[t].pc = "store" /\ th'[t].pc = "log"
                           \/ th[t].pc = "delete" /\ th'[t].pc = "getuser"]_vars

C8_Witness ==
    \E t \in Threads :
        /\ Checked(t)
        /\ th[t].getErr = ErrNil
        /\ th[t].storedOTP.OTPCode = th[t].code
        /\ th[t].checkTime > th[t].storedOTP.ExpiresAt
        /\ th[t].err = ErrInvalidOTP
        /\ th[t].storedOTP \in otps

\* C9: a verification that finds no stored code, a different code or an
\* expired code returns ErrInvalidOTP in each case, with no token and no user
\* created.
C9_OneErrorForThreeCauses ==
    \A t \in Threads :
        (/\ Checked(t)
         /\ \/ th[t].getErr # ErrNil
            \/ th[t].storedOTP.OTPCode # th[t].code
            \/ th[t].checkTime > th[t].storedOTP.ExpiresAt)
            => /\ th[t].err = ErrInvalidOTP
               /\ th[t].token = NoToken
               /\ ~th[t].created
               /\ th[t].pc = "idle"

C9_Witness ==
    \E t, u \in Threads :
        /\ Checked(t) /\ th[t].getErr # ErrNil /\ th[t].seenStores = 0
        /\ th[t].err = ErrInvalidOTP
        /\ Checked(u) /\ th[u].getErr = ErrNil
        /\ th[u].storedOTP.OTPCode # th[u].code
        /\ th[u].checkTime <= th[u].storedOTP.ExpiresAt
        /\ th[u].err = ErrInvalidOTP
        /\ users = EmptyMap

\* C10: the store holds at most one code per phone, and a verification passes
\* its check only with the code of the latest StoreOTP for the phone.
C10_OneCredentialPerIdentity ==
    /\ \A p \in Phones : Cardinality(RowsOf(otps, p)) <= 1
    /\ \A t \in Threads :
           (Checked(t) /\ th[t].err # ErrInvalidOTP)
               => /\ th[t].seenStores > 0
                  /\ th[t].storedOTP = StoredAt(th[t].phone, th[t].seenStores)
                  /\ th[t].code = StoredAt(th[t].phone, th[t].seenStores).OTPCode

C10_Witness ==
    \E t, u \in Threads :
        LET log == storeLog[th[t].phone]
        IN /\ th[u].phone = th[t].phone
           /\ Checked(t) /\ th[t].seenStores = 2
           /\ th[t].err = ErrNil /\ th[t].code = log[2].OTPCode
           /\ Checked(u) /\ th[u].seenStores = 2
           /\ th[u].code = log[1].OTPCode /\ log[1].OTPCode # log[2].OTPCode
           /\ th[u].err = ErrInvalidOTP

\* C11: every verification that passed its OTP check returns a token, also
\* when it loses the CreateUser race to a concurrent verification of the
\* same new phone: the loser re-reads the user the winner created.
C11_BothRacersGetTokens ==
    \A t \in Threads :
        (th[t].op = "verify" /\ th[t].pc = "idle" /\ th[t].err # ErrInvalidOTP)
            => /\ th[t].err = ErrNil
               /\ th[t].token # NoToken
               /\ th[t].phone \in DOMAIN phoneIndex
               /\ th[t].token.claims.sub = JString(UUIDString(phoneIndex[th[t].phone]))

\* C12: no two users of the user store have the same phone number, however
\* CreateUser calls interleave; a CreateUser for a phone that has a user
\* leaves the store as it is and returns ErrAlreadyExists, which is not the
\* store's ErrNotFound.
C12_PhoneNumberUnique ==
    /\ [](/\ \A i, j \in DOMAIN users :
                users[i].PhoneNumber = users[j].PhoneNumber => i = j
          /\ \A p \in DOMAIN phoneIndex :
                phoneIndex[p] \in DOMAIN users /\ users[phoneIndex[p]].PhoneNumber = p)
    /\ [][\A t \in Threads :
             (/\ th[t].pc = "create"
              /\ th'[t].pc # "create"
              /\ th[t].phone \in DOMAIN phoneIndex)
                 => /\ users' = users
                    /\ phoneIndex' = phoneIndex
                    /\ nextUserID' = nextUserID
                    /\ th'[t].createErr = ErrAlreadyExists
                    /\ th'[t].createErr # ErrNotFound
                    /\ ~th'[t].created]_vars

C12_Witness ==
    \E t, u \in Threads :
        /\ th[t].op = "verify" /\ th[t].createErr = ErrAlreadyExists
        /\ th[u].created
        /\ th[u].phone = th[t].phone
        /\ Cardinality(DOMAIN users) = 1

\* C13: the token a verification returns carries the submitted phone number
\* as its phone claim and, as its sub claim, the id of the user the user
\* store holds under that phone number.
C13_TokenNamesTheAccount ==
    \A t \in Threads :
        (th[t].op = "verify" /\ th[t].pc = "idle" /\ th[t].err = ErrNil)
            => /\ th[t].token.claims.phone = JString(th[t].phone)
               /\ th[t].phone \in DOMAIN phoneIndex
               /\ th[t].token.claims.sub = JString(UUIDString(phoneIndex[th[t].phone]))
               /\ users[phoneIndex[th[t].phone]].PhoneNumber = th[t].phone

C13_Witness ==
    \E t, u \in Threads :
        /\ t # u
        /\ th[t].op = "verify" /\ th[t].pc = "idle" /\ th[t].err = ErrNil
        /\ th[u].op = "verify" /\ th[u].pc = "idle" /\ th[u].err = ErrNil
        /\ th[t].created /\ ~th[u].created
        /\ th[t].token.claims.sub = th[u].token.claims.sub
        /\ th[t].token.claims.sub = JString(UUIDString(phoneIndex[th[t].phone]))

\* The request in auth carried, as a well-formed Bearer header, the token i.token.
PresentedIssued(i) ==
    /\ auth.seen
    /\ auth.header = [n |-> 2, scheme |-> "Bearer", token |-> i.token]

\* C14: a token generateJWT minted for user id A and phone P, presented to
\* AuthMiddleware before its exp, puts exactly (A, P) in the context and runs
\* the handler; presented after its exp, 24 hours after minting, it gets 401.
C14_MintVerifyRoundTrip ==
    \A i \in issued :
        /\ i.token.claims.exp = i.at + JWTTTL
        /\ PresentedIssued(i)
               => /\ auth.at < i.token.claims.exp => auth.result = Passed(i.id, i.phone)
                  /\ auth.at > i.token.claims.exp => auth.result = Unauthorized

C14_Witness ==
    \E i \in issued :
        /\ PresentedIssued(i)
        /\ i.id = 2
        /\ auth.at > i.at
        /\ auth.at < i.token.claims.exp
        /\ auth.result.ran
        /\ auth.result.user.ID = 2
        /\ auth.result.user.PhoneNumber = i.phone

\* C15: AuthMiddleware runs the handler for no token whose alg is other than
\* HS256.
C15_OnlyHS256Accepted ==
    (auth.seen /\ auth.header.token.wellformed /\ auth.header.token.alg # "HS256")
        => /\ ~auth.result.ran
           /\ auth.result.status = 401

\* The presented credential of a request has a structural, signature or
\* expiry problem.
Problem(header, t) ==
    \/ header.n # 2
    \/ header.scheme # "Bearer"
    \/ ~header.token.wellformed
    \/ header.token.sig # Sign(header.token.alg, JWTSecret, header.token.claims)
    \/ t > header.token.claims.exp
    \/ header.token.claims.sub.kind # "string"
    \/ header.token.claims.phone.kind # "string"
    \/ \A id \in UUIDSpace : header.token.claims.sub.text \notin UUIDForms(id)

\* C16: every request whose credential has such a problem is answered 401 and
\* the protected handler does not run.
C16_FailsClosed ==
    (auth.seen /\ Problem(auth.header, auth.at))
        => /\ auth.result.status = 401
           /\ ~auth.result.ran

\* C17: a SendOTP whose entropy read failed stores no code and does not
\* return nil.
C17_NoFallbackCode ==
    \A t \in Threads :
        (th[t].op = "send" /\ th[t].entropyFailed)
            => /\ th[t].pc \notin {"store", "log"}
               /\ th[t].pc = "idle" => th[t].err # ErrNil
               /\ \A r \in RowsOf(otps, th[t].phone) : r.OTPCode # GenerateOTP(EntropyFailure)

\* The three bytes of a 24-bit value, and the 24-bit values GenerateOTP turns
\* into the number c: they are among c, c + OTPModulus, c + 2 * OTPModulus, ...
BytesOf(v) == <<v \div 65536, (v \div 256) % 256, v % 256>>
EntropyValues == 256 * 256 * 256
Preimages(c) ==
    {v \in {c + k * OTPModulus : k \in 0 .. (EntropyValues \div OTPModulus)} :
        v < EntropyValues /\ OTPNumber(BytesOf(v)) = c}

\* C18: every code GenerateOTP produces comes from as many values of the
\* three random bytes as the code 000000 does.
C18_UniformCodes ==
    (gen.code # "" /\ ~gen.err)
        => Cardinality(Preimages(OTPNumber(gen.b))) = Cardinality(Preimages(0))

\* C19: a SendOTP whose StoreOTP fails returns an error that is neither nil
\* nor ErrRateLimitExceeded nor made of the code, prints nothing to the sink
\* and leaves the OTP store as it was.
C19_StoreFailureLeaksNothing ==
    [][\A t \in Threads :
          (th[t].pc = "store" /\ th'[t].pc \notin {"store", "log"})
              => /\ th'[t].err \notin {ErrNil, ErrRateLimitExceeded, th[t].code}
                 /\ sink' = sink
                 /\ otps' = otps
                 /\ storeLog' = storeLog]_vars

C19_Witness ==
    \E t \in Threads :
        LET p == th[t].phone
        IN /\ th[t].op = "send" /\ th[t].pc = "idle"
           /\ th[t].err = ErrStoreOTP
           /\ Len(storeLog[p]) = 1
           /\ RowsOf(otps, p) = {storeLog[p][1]}
           /\ sink[p] = storeLog[p][1].OTPCode

\* The OTP check of verification t failed.
CheckFailed(t) ==
    \/ th[t].getErr # ErrNil
    \/ th[t].storedOTP.OTPCode # th[t].code
    \/ th[t].checkTime > th[t].storedOTP.ExpiresAt

\* C20: a verification returns ErrInvalidOTP exactly when its OTP check
\* failed; a failure of the user lookup, of CreateUser or of generateJWT after
\* a passed check is returned as another error.
C20_ServiceErrorsDistinct ==
    \A t \in Threads :
        (th[t].op = "verify" /\ th[t].pc = "idle")
            => /\ CheckFailed(t) <=> th[t].err = ErrInvalidOTP
               /\ ~CheckFailed(t) =>
                      th[t].err \in {ErrNil, ErrDBLookup, ErrUserRegistration,
                                     ErrJWTGeneration}
               /\ th[t].err # ErrNil => th[t].token = NoToken

C20_Witness ==
    \E t, u \in Threads :
        /\ th[t].op = "verify" /\ th[t].pc = "idle" /\ ~CheckFailed(t)
        /\ th[t].err = ErrDBLookup
        /\ th[u].op = "verify" /\ th[u].pc = "idle" /\ ~CheckFailed(u)
        /\ th[u].err = ErrJWTGeneration

\* C21: a verification whose DeleteOTP returned a database error does not
\* return a token while the OTP it verified is still stored.
C21_DeleteFailureNotSwallowed ==
    \A t \in Threads :
        (th[t].op = "verify" /\ th[t].pc = "idle" /\ th[t].deleteErr # ErrNil)
            => ~(th[t].err = ErrNil /\ th[t].token # NoToken /\ th[t].storedOTP \in otps)

\* C22: every Allow returns what it would return had cleanup never run: the
\* decision it makes on the swept map is the decision on the unswept one.
C22_CleanupChangesNoDecision ==
    [][\A t \in Threads :
          (th[t].pc = "allow_exit" /\ th'[t].pc # "allow_exit")
              => (th'[t].allowed
                      = ~LimitReached(Len(Recent(Lookup(shadow, th[t].phone),
                                                 th[t].currentTime))))]_vars

C22_Witness ==
    \E t \in Threads :
        /\ th[t].pc = "allow_exit"
        /\ th[t].phone \in DOMAIN shadow
        /\ th[t].phone \notin DOMAIN requests

\* C23: after every store call the in-memory store and the PostgreSQL store
\* have returned the same error class and the same code, expiry and phone
\* number.
C23_BackendsIndistinguishable == backends.last.mem = backends.last.pg

\* C24: two ListUsers calls in a row with the same limit, offset and search
\* return the same page, and the page at the next offset shares no account
\* with the page before it.
C24_ListUsersDeterministic ==
    [][(backends.last.op = "ListUsers" /\ backends'.last.op = "ListUsers"
            /\ backends'.calls = backends.calls + 1)
          => /\ (backends'.list.args = backends.list.args
                    => backends'.list.page = backends.list.page)
             /\ ((/\ backends'.list.args[1] = backends.list.args[1]
                  /\ backends'.list.args[3] = backends.list.args[3]
                  /\ backends'.list.args[2] = backends.list.args[2] + backends.list.args[1])
                    => \A i \in 1..Len(backends.list.page), j \in 1..Len(backends'.list.page) :
                          backends.list.page[i] # backends'.list.page[j])]_vars

\* C25: under fair scheduling every SendOTP and VerifyOTPAndAuthenticate call
\* that has started returns, whatever the other thread and cleanup do.
C25_EveryCallReturns ==
    \A t \in Threads : (th[t].pc # "idle") ~> (th[t].pc = "idle")

C25_Witness ==
    \E t, u \in Threads :
        /\ th[t].op = "verify" /\ th[t].pc # "idle"
        /\ th[u].pc = "allow_exit" /\ rlMu = u
        /\ now >= nextCleanup

\* C26: a user enters the users map only by the CreateUser of a verification
\* whose OTP check passed for that user's phone number, and a user in the map
\* stays in it with the same id and phone number.
C26_UsersCreatedByVerifiedCalls ==
    [][/\ \A id \in DOMAIN users : id \in DOMAIN users' /\ users'[id] = users[id]
       /\ \A id \in DOMAIN users' \ DOMAIN users :
             \E t \in Threads :
                 /\ th[t].op = "verify" /\ th[t].pc = "create"
                 /\ ~CheckFailed(t)
                 /\ th[t].storedOTP.PhoneNumber = users'[id].PhoneNumber
                 /\ th[t].phone = users'[id].PhoneNumber
                 /\ users'[id].ID = id]_vars

C26_Witness ==
    \E t, u \in Threads :
        /\ t # u
        /\ th[t].pc = "idle" /\ th[t].created /\ th[t].err = ErrNil
        /\ th[u].op = "verify" /\ th[u].pc = "idle" /\ th[u].err = ErrNil /\ ~th[u].created
        /\ th[u].token.claims.sub = th[t].token.claims.sub
        /\ \E id \in DOMAIN users : users[id].PhoneNumber = th[t].phone

\* C27: a verification whose check runs at or after the stored OTP's ExpiresAt
\* is rejected with ErrInvalidOTP, the instant ExpiresAt itself included.
C27_ExpiredAtExpiresAt ==
    \A t \in Threads :
        (/\ Checked(t)
         /\ th[t].getErr = ErrNil
         /\ th[t].storedOTP.OTPCode = th[t].code
         /\ th[t].checkTime >= th[t].storedOTP.ExpiresAt)
            => th[t].err = ErrInvalidOTP

\* C28: a verification called after a verification with a wrong code has
\* returned, and reading the stored OTP that one read (no StoreOTP came in
\* between), is rejected with ErrInvalidOTP even with the stored code.
C28_MismatchConsumes ==
    \A t \in Threads :
        (/\ Checked(t)
         /\ th[t].mismatchedID # 0
         /\ th[t].storedOTP.ID = th[t].mismatchedID
         /\ th[t].code = th[t].storedOTP.OTPCode)
            => th[t].err = ErrInvalidOTP

\* C29: the DeleteOTP of a verification removes from the store no OTP other
\* than the one its GetOTP read.
C29_DeleteOnlyVerified ==
    [][\A t \in Threads :
          (th[t].op = "verify" /\ th[t].pc = "delete" /\ th'[t].pc # "delete")
              => (otps \ otps') \subseteq {th[t].storedOTP}]_vars

\* C30: a SendOTP that Allow refused returns ErrRateLimitExceeded at its next
\* step and changes neither the stored OTPs nor the log of codes; the OTP
\* stored before it passes the check of a verification until it expires.
C30_RejectedSendChangesNothing ==
    /\ [][\A t \in Threads :
             (/\ th[t].op = "send" /\ th[t].pc \notin {"idle", "allow_enter", "allow_exit"}
              /\ ~th[t].allowed
              /\ th'[t] # th[t])
                 => /\ th'[t].pc = "idle" /\ th'[t].err = ErrRateLimitExceeded
                    /\ otps' = otps /\ storeLog' = storeLog
                    /\ nextOtpID' = nextOtpID /\ sink' = sink]_vars
    /\ [](\A t, u \in Threads :
             (/\ th[u].op = "send" /\ th[u].pc = "idle" /\ th[u].err = ErrRateLimitExceeded
              /\ Checked(t) /\ th[t].phone = th[u].phone
              /\ th[t].getErr = ErrNil
              /\ th[t].code = th[t].storedOTP.OTPCode
              /\ th[t].checkTime <= th[t].storedOTP.ExpiresAt)
                 => th[t].err # ErrInvalidOTP)

C30_Witness ==
    \E t, u \in Threads :
        /\ th[u].op = "send" /\ th[u].pc = "idle" /\ th[u].err = ErrRateLimitExceeded
        /\ th[t].op = "verify" /\ th[t].pc = "idle" /\ th[t].err = ErrNil
        /\ th[t].phone = th[u].phone
        /\ Len(storeLog[th[u].phone]) = maxReq
        /\ th[t].storedOTP = storeLog[th[u].phone][maxReq]
        /\ th[t].token # NoToken

\* C31: when a verification has passed the OTP check and then failed at the
\* user lookup, at CreateUser or at generateJWT, the OTP it verified is no
\* longer stored.
C31_CredentialGoneOnLateFailure ==
    \A t \in Threads :
        (/\ th[t].op = "verify" /\ th[t].pc = "idle"
         /\ ~CheckFailed(t)
         /\ th[t].err \notin {ErrNil, ErrInvalidOTP})
            => th[t].storedOTP \notin otps

\* What the limiter and the stores hold for phone number b.
HeldFor(lim, adm, rows, log, us, idx, b) ==
    <<Lookup(lim, b), adm[b], RowsOf(rows, b), log[b],
      {us[id] : id \in {i \in DOMAIN us : us[i].PhoneNumber = b}},
      IF b \in DOMAIN idx THEN {idx[b]} ELSE {}>>

\* C32: a step of a SendOTP, VerifyOTPAndAuthenticate or Allow call for one
\* phone number leaves the window, the stored OTP and the user of every other
\* phone number as they were.
C32_IdentitiesIsolated ==
    [][\A t \in Threads :
          th'[t] # th[t]
              => \A b \in Phones \ {th'[t].phone} :
                    HeldFor(requests', admitted', otps', storeLog', users', phoneIndex', b)
                        = HeldFor(requests, admitted, otps, storeLog, users, phoneIndex, b)]_vars

C32_Witness ==
    \E t, u \in Threads :
        /\ th[t].phone # th[u].phone
        /\ th[t].op = "verify" /\ th[t].pc = "idle" /\ th[t].err = ErrNil
        /\ th[u].op = "send" /\ th[u].pc = "idle" /\ th[u].err = ErrNil
        /\ RowsOf(otps, th[t].phone) = {}
        /\ RowsOf(otps, th[u].phone) # {}
        /\ th[t].phone \in DOMAIN phoneIndex
        /\ th[u].phone \notin DOMAIN phoneIndex

\* C33: neither limiter records a call it refuses: after an Allow that
\* returned false, the window of that limiter holds the call's instant no more
\* often than before, in the middleware limiter and in the database one.
C33_NeitherRecordsRejected ==
    dbLimiter.last.seen
        => /\ (~dbLimiter.last.mw => ~dbLimiter.last.mwRecorded)
           /\ (~dbLimiter.last.db => ~dbLimiter.last.dbRecorded)

C33_Witness ==
    /\ dbLimiter.last.seen
    /\ ~dbLimiter.last.mw
    /\ ~dbLimiter.last.db
    /\ Len(Lookup(requests, dbLimiter.last.key)) = maxReq
    /\ Len(Lookup(dbLimiter.requests, dbLimiter.last.key)) = DbMaxReq
    /\ dbLimiter.last.at > 0

\* C33, as stated: when a call is refused, one of the two limiters holds its
\* instant in the window and the other does not.
C33_LimitersDifferOnRejected ==
    (dbLimiter.last.seen /\ (~dbLimiter.last.mw \/ ~dbLimiter.last.db))
        => ((~dbLimiter.last.mw /\ dbLimiter.last.mwRecorded)
               # (~dbLimiter.last.db /\ dbLimiter.last.dbRecorded))

\* The limit the documentation of POST /otp/send states.
DocMaxReq == 3
DocWindow == 10

\* C34: the limiter main builds admits at most 3 calls for a phone number
\* within any 10 minutes.
C34_DocumentedLimitEnforced ==
    \A p \in Phones :
        LET a == admitted[p]
        IN \A i \in DOMAIN a :
               Cardinality({j \in DOMAIN a : a[j] <= a[i] /\ a[i] - a[j] < DocWindow})
                   <= DocMaxReq

\* C35: when every SendOTP call has returned and no verification has run, the
\* code last printed for a phone number is the code stored for it.
C35_LastLoggedIsStored ==
    \A p \in Phones :
        (/\ \A t \in Threads : th[t].pc = "idle" /\ th[t].err = ErrNil
         /\ budget.verify = MaxVerifies
         /\ sink[p] # "")
            => \A r \in RowsOf(otps, p) : r.OTPCode = sink[p]

\* The accounts of users that a filter selects, by position, and the size of
\* the page that limit and offset ask of that many.
Selected(us, Matches(_)) == {i \in 1..Len(us) : Matches(us[i])}
PageSize(limit, offset, total) ==
    LET rest == IF total - offset > 0 THEN total - offset ELSE 0
    IN IF limit < rest THEN limit ELSE rest
InPage(page, us, Matches(_)) ==
    \A i \in 1..Len(page) : Matches(page[i]) /\ \E j \in 1..Len(us) : us[j] = page[i]
MemMatches(u) == backends.list.args[3] = "" \/ u = backends.list.args[3]
PgMatches(u) == backends.list.args[3] = "" \/ Contains(u, backends.list.args[3])

\* What ListUsers returned is right for the in-memory store, and for the
\* PostgreSQL store, once it has answered, whenever applies holds.
ListUsersRight(applies) ==
    LET l == backends.list
    IN l.seen =>
          /\ l.total = Cardinality(Selected(l.usersAt, MemMatches))
          /\ Len(l.page) = PageSize(l.args[1], l.args[2], l.total)
          /\ InPage(l.page, l.usersAt, MemMatches)
          /\ (~l.pgPending /\ applies) =>
                /\ l.pgTotal = Cardinality(Selected(l.pgUsersAtPage, PgMatches))
                /\ Len(l.pgPage) = PageSize(l.args[1], l.args[2], l.pgTotal)
                /\ InPage(l.pgPage, l.pgUsersAtPage, PgMatches)

\* C36: ListUsers returns as total the number of users its filter matches and
\* a page of min(limit, max(0, total - offset)) of them; for the PostgreSQL
\* store, when no user was created between its two queries.
C36_ListUsersPageAndTotal ==
    ListUsersRight(backends.list.pgUsersAtPage = backends.list.pgUsersAt)

C36_Witness ==
    /\ backends.list.seen /\ ~backends.list.pgPending
    /\ backends.list.pgUsersAtPage = backends.list.pgUsersAt
    /\ backends.list.args = <<1, 1, "">>
    /\ backends.list.total = 2 /\ Len(backends.list.page) = 1
    /\ backends.list.pgTotal = 2 /\ Len(backends.list.pgPage) = 1

\* C36, as stated: whatever happens between the two queries.
C36_ListUsersPageAndTotalAlways == ListUsersRight(TRUE)

\* C37: over the same users and with the same non-empty search, ListUsers
\* reports the same total on the in-memory store and on the PostgreSQL store.
C37_SameSearchSameTotal ==
    (/\ backends.list.seen
     /\ backends.list.args[3] # ""
     /\ backends.list.usersAt = backends.list.pgUsersAt)
        => backends.list.total = backends.list.pgTotal

\* C38: every phoneIndex entry names an id in users whose PhoneNumber is the
\* entry's key, and every user in users is named by the phoneIndex entry of
\* its phone number and by no other; GetUserByPhoneNumber never finds an
\* index entry without its user.
C38_IndexAgreesWithUsers ==
    /\ \A p \in DOMAIN phoneIndex :
          phoneIndex[p] \in DOMAIN users /\ users[phoneIndex[p]].PhoneNumber = p
    /\ \A id \in DOMAIN users :
          /\ users[id].ID = id
          /\ users[id].PhoneNumber \in DOMAIN phoneIndex
          /\ {p \in DOMAIN phoneIndex : phoneIndex[p] = id} = {users[id].PhoneNumber}

C38_Witness ==
    \E t, u \in Threads :
        /\ t # u
        /\ th[u].created /\ th[u].pc = "idle"
        /\ th[t].op = "verify" /\ th[t].pc = "jwt" /\ ~th[t].created
        /\ th[t].phone \in DOMAIN phoneIndex
        /\ th[t].user = users[phoneIndex[th[t].phone]]

====
